---- MODULE Spec2Model ----
(***************************************************************************)
(* acpe_simulation.py: the two time-stepping simulations (with and without *)
(* the ACPE braking command), the extraction of the collision time and     *)
(* speed from the returned arrays, and the summary with the reduction      *)
(* percentage.                                                             *)
(*                                                                         *)
(* Every number the script computes with is a Python float (IEEE 754       *)
(* binary64, round to nearest, ties to even).  The loop condition          *)
(* time[-1] < max_time reads a time that was accumulated by repeated       *)
(* rounded additions of dt, so the arithmetic is modelled bit for bit: a   *)
(* float is <<sign, exponent, mantissa>> with value                        *)
(* sign * mantissa * 2^exponent, the mantissa a 53-bit natural held in     *)
(* limbs because it does not fit one integer of the checker.               *)
(***************************************************************************)
EXTENDS Integers, Sequences, FiniteSets, TLC

(***************************************************************************)
(* Naturals of any width: little-endian limbs in base Radix, no leading    *)
(* zero limb (zero is the empty sequence).                                 *)
(***************************************************************************)
Radix == 2^14

Limb(n, i) == IF i >= 1 /\ i <= Len(n) THEN n[i] ELSE 0

RECURSIVE NatTrim(_)
NatTrim(n) ==
    IF n = <<>> THEN n
    ELSE IF n[Len(n)] = 0 THEN NatTrim(SubSeq(n, 1, Len(n) - 1))
    ELSE n

\* Propagates carries (or borrows) through the columns r, from column i on.
RECURSIVE NatCarry(_, _, _)
NatCarry(r, i, c) ==
    IF i > Len(r)
    THEN IF c = 0 THEN <<>> ELSE <<c % Radix>> \o NatCarry(r, i, c \div Radix)
    ELSE <<(r[i] + c) % Radix>> \o NatCarry(r, i + 1, (r[i] + c) \div Radix)

NatWidth(a, b) == IF Len(a) >= Len(b) THEN Len(a) ELSE Len(b)

NatAdd(a, b) ==
    NatTrim(NatCarry([i \in 1..NatWidth(a, b) |-> Limb(a, i) + Limb(b, i)], 1, 0))

\* a - b, for a >= b
NatSub(a, b) ==
    NatTrim(NatCarry([i \in 1..NatWidth(a, b) |-> Limb(a, i) - Limb(b, i)], 1, 0))

\* column k of the schoolbook product: the sum of a[i] * b[k + 1 - i]
RECURSIVE NatColumn(_, _, _, _)
NatColumn(a, b, k, i) ==
    IF i > Len(a) THEN 0
    ELSE Limb(a, i) * Limb(b, k + 1 - i) + NatColumn(a, b, k, i + 1)

\* a * b, for operands of at most four limbs (a mantissa), so that a column fits
NatMul(a, b) ==
    IF a = <<>> \/ b = <<>> THEN <<>>
    ELSE NatTrim(NatCarry([k \in 1..(Len(a) + Len(b) - 1) |-> NatColumn(a, b, k, 1)], 1, 0))

\* -1, 0, 1 as a < b, a = b, a > b, comparing from limb i down
RECURSIVE NatCmpFrom(_, _, _)
NatCmpFrom(a, b, i) ==
    IF i = 0 THEN 0
    ELSE IF a[i] < b[i] THEN -1
    ELSE IF a[i] > b[i] THEN 1
    ELSE NatCmpFrom(a, b, i - 1)

NatCmp(a, b) ==
    IF Len(a) < Len(b) THEN -1
    ELSE IF Len(a) > Len(b) THEN 1
    ELSE NatCmpFrom(a, b, Len(a))

\* the number of bits of a limb x > 0
LimbBitLen(x) ==
    IF x < 128
    THEN IF x < 8 THEN (IF x < 2 THEN 1 ELSE IF x < 4 THEN 2 ELSE 3)
         ELSE IF x < 32 THEN (IF x < 16 THEN 4 ELSE 5)
         ELSE IF x < 64 THEN 6 ELSE 7
    ELSE IF x < 1024 THEN (IF x < 256 THEN 8 ELSE IF x < 512 THEN 9 ELSE 10)
         ELSE IF x < 4096 THEN (IF x < 2048 THEN 11 ELSE 12)
         ELSE IF x < 8192 THEN 13 ELSE 14

NatBitLen(n) == IF n = <<>> THEN 0 ELSE 14 * (Len(n) - 1) + LimbBitLen(n[Len(n)])

\* n * 2^k
NatShl(n, k) ==
    LET q == k \div 14
        r == k % 14
    IN  IF k = 0 THEN n
        ELSE NatTrim([i \in 1..q |-> 0] \o
                     [i \in 1..(Len(n) + 1) |->
                         ((Limb(n, i) * 2^r) % Radix) + (Limb(n, i - 1) \div 2^(14 - r))])

\* n \div 2^k
NatShr(n, k) ==
    LET q == k \div 14
        r == k % 14
    IN  NatTrim([i \in 1..(Len(n) - q) |->
                    (Limb(n, i + q) \div 2^r) + ((Limb(n, i + q + 1) % 2^r) * 2^(14 - r))])

\* bit j of n (bit 0 is the lowest)
NatBit(n, j) == (Limb(n, (j \div 14) + 1) \div 2^(j % 14)) % 2

\* every bit of n below bit j is 0
NatLowZero(n, j) ==
    /\ \A i \in 1..(j \div 14) : Limb(n, i) = 0
    /\ Limb(n, (j \div 14) + 1) % 2^(j % 14) = 0

\* a small non-negative integer as a natural
NatOfInt(x) == NatTrim(<<x % Radix, (x \div Radix) % Radix, x \div (Radix * Radix)>>)

\* n bit steps of the long division by b: the digit they give after d, and the
\* remainder shifted for the next step (r < 2b on entry and on exit)
RECURSIVE NatQuotLimb(_, _, _, _)
NatQuotLimb(r, b, n, d) ==
    IF n = 0 THEN <<d, r>>
    ELSE IF NatCmp(r, b) >= 0
    THEN NatQuotLimb(NatShl(NatSub(r, b), 1), b, n - 1, 2 * d + 1)
    ELSE NatQuotLimb(NatShl(r, 1), b, n - 1, 2 * d)

\* <<q, rem>>: the first n limbs of the quotient of r by b (r < 2b), which is
\* (r * 2^(14n - 1)) \div b, and what is left of the dividend (0 when exact)
RECURSIVE NatQuotLimbs(_, _, _)
NatQuotLimbs(r, b, n) ==
    IF n = 0 THEN <<<<>>, r>>
    ELSE LET dr == NatQuotLimb(r, b, 14, 0)
             rest == NatQuotLimbs(dr[2], b, n - 1)
         IN  <<rest[1] \o <<dr[1]>>, rest[2]>>

(***************************************************************************)
(* binary64 values and their operations.                                   *)
(***************************************************************************)
Precision == 53

\* A float is <<sign, exponent, high, low>>: sign is -1, 0 or 1, and the value is
\* sign * (high * 2^28 + low) * 2^exponent, the mantissa having exactly 53 bits
\* (zero is <<0, 0, 0, 0>>; the sign of a zero decides nothing in the script).
FZero == <<0, 0, 0, 0>>

FPack(sign, e, m) == <<sign, e, m[3] + m[4] * Radix, m[1] + m[2] * Radix>>

\* the mantissa of a float that is not zero
Mant(x) == <<x[4] % Radix, x[4] \div Radix, x[3] % Radix, x[3] \div Radix>>

\* sign * n * 2^e rounded to the nearest float, ties to even
FRound(sign, n, e) ==
    LET len == NatBitLen(n)
        k == len - Precision
    IN  IF n = <<>> THEN FZero
        ELSE IF k <= 0 THEN FPack(sign, e + k, NatShl(n, 0 - k))
        ELSE LET q == NatShr(n, k)
                 up == /\ NatBit(n, k - 1) = 1
                       /\ (~NatLowZero(n, k - 1) \/ NatBit(n, k) = 1)
                 m == IF up THEN NatAdd(q, <<1>>) ELSE q
             IN  IF NatBitLen(m) > Precision
                 THEN FPack(sign, e + k + 1, NatShr(m, 1))
                 ELSE FPack(sign, e + k, m)

FromInt(x) ==
    IF x = 0 THEN FZero
    ELSE IF x > 0 THEN FRound(1, NatOfInt(x), 0)
    ELSE FRound(-1, NatOfInt(0 - x), 0)

\* -1, 0, 1 as x < y, x = y, x > y
FCmp(x, y) ==
    IF x[1] # y[1] THEN (IF x[1] < y[1] THEN -1 ELSE 1)
    ELSE IF x[1] = 0 THEN 0
    ELSE IF x[2] # y[2] THEN (IF x[2] < y[2] THEN 0 - x[1] ELSE x[1])
    ELSE IF x[3] # y[3] THEN (IF x[3] < y[3] THEN 0 - x[1] ELSE x[1])
    ELSE IF x[4] # y[4] THEN (IF x[4] < y[4] THEN 0 - x[1] ELSE x[1])
    ELSE 0

FLt(x, y) == FCmp(x, y) < 0
FGe(x, y) == FCmp(x, y) >= 0
FGt(x, y) == FCmp(x, y) > 0
FLe(x, y) == FCmp(x, y) <= 0

FNeg(x) == <<0 - x[1], x[2], x[3], x[4]>>

\* x + y
FAdd(x, y) ==
    IF x[1] = 0 THEN y
    ELSE IF y[1] = 0 THEN x
    ELSE LET e == IF x[2] <= y[2] THEN x[2] ELSE y[2]
             a == NatShl(Mant(x), x[2] - e)
             b == NatShl(Mant(y), y[2] - e)
             c == NatCmp(a, b)
         IN  IF x[1] = y[1] THEN FRound(x[1], NatAdd(a, b), e)
             ELSE IF c = 0 THEN FZero
             ELSE IF c > 0 THEN FRound(x[1], NatSub(a, b), e)
             ELSE FRound(y[1], NatSub(b, a), e)

FSub(x, y) == FAdd(x, FNeg(y))

\* x * y
FMul(x, y) ==
    IF x[1] = 0 \/ y[1] = 0 THEN FZero
    ELSE FRound(x[1] * y[1], NatMul(Mant(x), Mant(y)), x[2] + y[2])

\* x / y, for y # 0: the quotient of the mantissas to 70 bits, and a sticky bit
\* for the remainder
FDiv(x, y) ==
    IF x[1] = 0 THEN FZero
    ELSE LET qr == NatQuotLimbs(Mant(x), Mant(y), 5)
             n == NatAdd(NatShl(NatTrim(qr[1]), 1), IF qr[2] = <<>> THEN <<>> ELSE <<1>>)
         IN  FRound(x[1] * y[1], n, x[2] - y[2] - 70)

\* Python's max(0, x): 0 unless x > 0
FMax0(x) == IF FGt(x, FZero) THEN x ELSE FZero

(***************************************************************************)
(* The script.                                                             *)
(***************************************************************************)
\* the defaults of both simulations: dt = 0.01,  max_time = 10
dt == FDiv(FromInt(1), FromInt(100))
max_time == 10
MaxTime == FromInt(max_time)

\* velocity * 3.6
KphFactor == FDiv(FromInt(36), FromInt(10))

\* A slider's value: the float nearest to ticks / per, the tick it stands on.
SliderValue(ticks, per) == FDiv(FromInt(ticks), FromInt(per))

\* The slider positions explored: distance in steps of 0.01 m, delay in steps
\* of 10 ms, deceleration and acceleration in steps of 0.1 m/s^2.
MaxDelayIdx == 2
DistanceTicks == {0, 100, 300}
DelayTicks == {60 * k : k \in 0..MaxDelayIdx}
BrakeTicks == {0, -80}
AccelTicks == {0, 30, 50}

\* delay_s = delay_ms / 1000.0
DelaySeconds(ms) == FDiv(FromInt(ms), FromInt(1000))

\* a name the script has not bound (yet)
Unbound == <<>>

VARIABLES
    pc,                         \* the statement the script is at
    distance_to_obstacle,       \* the four slider values
    delay_ms,
    brake_decel,
    accel,
    delay_s,
    time,                       \* the lists (then arrays) of the ACPE run
    velocity,
    position,
    collision,
    time_noacpe,                \* the same of the run without ACPE
    velocity_noacpe,
    position_noacpe,
    collision_noacpe,
    collision_time,
    collision_speed_kph,
    collision_time_noacpe,
    collision_speed_noacpe_kph,
    reduction,
    summary                     \* the branch of the summary that was shown

inputs == <<distance_to_obstacle, delay_ms, brake_decel, accel, delay_s>>
acpe == <<time, velocity, position, collision>>
noacpe == <<time_noacpe, velocity_noacpe, position_noacpe, collision_noacpe>>
extracted == <<collision_time, collision_speed_kph>>
extracted_noacpe == <<collision_time_noacpe, collision_speed_noacpe_kph>>
shown == <<reduction, summary>>

vars == <<pc, inputs, acpe, noacpe, extracted, extracted_noacpe, shown>>

Last(seq) == seq[Len(seq)]

\* the sliders are read and both simulations start with their lists at [0]
Init ==
    /\ pc = "simulate_with_acpe"
    /\ distance_to_obstacle \in {SliderValue(k, 100) : k \in DistanceTicks}
    /\ delay_ms \in {10 * k : k \in DelayTicks}
    /\ brake_decel \in {SliderValue(k, 10) : k \in BrakeTicks}
    /\ accel \in {SliderValue(k, 10) : k \in AccelTicks}
    /\ delay_s = DelaySeconds(delay_ms)
    /\ time = <<FZero>>
    /\ velocity = <<FZero>>
    /\ position = <<FZero>>
    /\ collision = FALSE
    /\ time_noacpe = <<FZero>>
    /\ velocity_noacpe = <<FZero>>
    /\ position_noacpe = <<FZero>>
    /\ collision_noacpe = FALSE
    /\ collision_time = Unbound
    /\ collision_speed_kph = Unbound
    /\ collision_time_noacpe = Unbound
    /\ collision_speed_noacpe_kph = Unbound
    /\ reduction = Unbound
    /\ summary = "none"

\* Mutants of AcpeAccel: the two phases exchanged; the acceleration as the value
\* at rest; no acceleration phase at all; the deceleration with its sign lost.
AcpeAccelReversed(t, v) ==
    IF FGe(t, delay_s) THEN accel
    ELSE IF FGt(v, FZero) THEN brake_decel ELSE FZero

AcpeAccelElseAccel(t, v) ==
    IF FLt(t, delay_s) THEN accel
    ELSE IF FGt(v, FZero) THEN brake_decel ELSE accel

AcpeAccelNoDelay(t, v) == IF FGt(v, FZero) THEN brake_decel ELSE FZero

AcpeAccelSignError(t, v) ==
    IF FLt(t, delay_s) THEN accel
    ELSE IF FGt(v, FZero) THEN FNeg(brake_decel) ELSE FZero

\* the acceleration the ACPE run applies on the step that ends at time t,
\* v being velocity[-1]
AcpeAccel(t, v) ==
    IF FLt(t, delay_s) THEN accel
    ELSE IF FGt(v, FZero) THEN brake_decel ELSE FZero

\* Mutant of NextVelocity: the clamp at 0 is missing.
NextVelocityUnclamped(v, a) == FAdd(v, FMul(a, dt))

\* v = max(0, velocity[-1] + a * dt)
NextVelocity(v, a) == FMax0(FAdd(v, FMul(a, dt)))

\* Mutant of NextPosition: the position advances by the velocity before the update.
NextPositionOldVelocity(s, previous, v) == FAdd(s, FMul(previous, dt))

\* s = position[-1] + v * dt, v the velocity just computed (not previous, which
\* is velocity[-1])
NextPosition(s, previous, v) == FAdd(s, FMul(v, dt))

\* Mutant of LoopGuard: the loop goes on after a collision.
LoopGuardIgnoringCollision(times, hit) == FLt(Last(times), MaxTime)

\* while time[-1] < max_time and not collision
LoopGuard(times, hit) == ~hit /\ FLt(Last(times), MaxTime)

\* if s >= distance_to_obstacle
Hit(s) == FGe(s, distance_to_obstacle)

\* one iteration of the loop of simulate_with_acpe
AcpeStep ==
    /\ pc = "simulate_with_acpe"
    /\ LoopGuard(time, collision)
    /\ LET t == FAdd(Last(time), dt)
           v == NextVelocity(Last(velocity), AcpeAccel(t, Last(velocity)))
           s == NextPosition(Last(position), Last(velocity), v)
       IN  /\ time' = Append(time, t)
           /\ velocity' = Append(velocity, v)
           /\ position' = Append(position, s)
           /\ collision' = Hit(s)
    /\ UNCHANGED <<pc, inputs, noacpe, extracted, extracted_noacpe, shown>>

\* the loop of simulate_with_acpe is left and its lists are returned
AcpeReturn ==
    /\ pc = "simulate_with_acpe"
    /\ ~LoopGuard(time, collision)
    /\ pc' = "simulate_no_acpe"
    /\ UNCHANGED <<inputs, acpe, noacpe, extracted, extracted_noacpe, shown>>

\* one iteration of the loop of simulate_no_acpe
NoAcpeStep ==
    /\ pc = "simulate_no_acpe"
    /\ LoopGuard(time_noacpe, collision_noacpe)
    /\ LET t == FAdd(Last(time_noacpe), dt)
           v == NextVelocity(Last(velocity_noacpe), accel)
           s == NextPosition(Last(position_noacpe), Last(velocity_noacpe), v)
       IN  /\ time_noacpe' = Append(time_noacpe, t)
           /\ velocity_noacpe' = Append(velocity_noacpe, v)
           /\ position_noacpe' = Append(position_noacpe, s)
           /\ collision_noacpe' = Hit(s)
    /\ UNCHANGED <<pc, inputs, acpe, extracted, extracted_noacpe, shown>>

NoAcpeReturn ==
    /\ pc = "simulate_no_acpe"
    /\ ~LoopGuard(time_noacpe, collision_noacpe)
    /\ pc' = "extract_acpe"
    /\ UNCHANGED <<inputs, acpe, noacpe, extracted, extracted_noacpe, shown>>

\* the index [0] of array[position >= distance_to_obstacle] selects: the first
\* sample of the whole array, the initial one included, that the mask keeps
FirstMasked(positions) ==
    LET kept == {i \in 1..Len(positions) : Hit(positions[i])}
    IN  CHOOSE i \in kept : \A j \in kept : i <= j

\* if collision: collision_time, collision_speed_kph = ...  else: collision_speed_kph = 0
ExtractAcpe ==
    /\ pc = "extract_acpe"
    /\ IF collision
       THEN /\ collision_time' = time[FirstMasked(position)]
            /\ collision_speed_kph' = FMul(velocity[FirstMasked(position)], KphFactor)
       ELSE /\ collision_time' = Unbound
            /\ collision_speed_kph' = FZero
    /\ pc' = "extract_noacpe"
    /\ UNCHANGED <<inputs, acpe, noacpe, extracted_noacpe, shown>>

ExtractNoAcpe ==
    /\ pc = "extract_noacpe"
    /\ IF collision_noacpe
       THEN /\ collision_time_noacpe' = time_noacpe[FirstMasked(position_noacpe)]
            /\ collision_speed_noacpe_kph' =
                   FMul(velocity_noacpe[FirstMasked(position_noacpe)], KphFactor)
       ELSE /\ collision_time_noacpe' = Unbound
            /\ collision_speed_noacpe_kph' = FZero
    /\ pc' = "summary"
    /\ UNCHANGED <<inputs, acpe, noacpe, extracted, shown>>

\* Mutant of Reduction: the two speeds exchanged in the difference.
ReductionSwapped(with, without) ==
    IF FGt(without, FZero)
    THEN FMul(FDiv(FSub(with, without), without), FromInt(100))
    ELSE FZero

\* (collision_speed_noacpe_kph - collision_speed_kph) / collision_speed_noacpe_kph * 100
\*     if collision_speed_noacpe_kph > 0 else 0
Reduction(with, without) ==
    IF FGt(without, FZero)
    THEN FMul(FDiv(FSub(without, with), without), FromInt(100))
    ELSE FZero

\* the if / elif / elif / else of the summary
Summary ==
    /\ pc = "summary"
    /\ summary' = IF collision /\ collision_noacpe THEN "both"
                  ELSE IF collision_noacpe THEN "no_collision_with_acpe"
                  ELSE IF collision THEN "no_collision_without_acpe"
                  ELSE "no_collision"
    /\ reduction' = IF collision /\ collision_noacpe
                    THEN Reduction(collision_speed_kph, collision_speed_noacpe_kph)
                    ELSE Unbound
    /\ pc' = "done"
    /\ UNCHANGED <<inputs, acpe, noacpe, extracted, extracted_noacpe>>

Next ==
    \/ AcpeStep
    \/ AcpeReturn
    \/ NoAcpeStep
    \/ NoAcpeReturn
    \/ ExtractAcpe
    \/ ExtractNoAcpe
    \/ Summary

Spec == Init /\ [][Next]_vars

(***************************************************************************)
(* The properties.  Samples are numbered from 1 here: sample 1 is the      *)
(* initial one (index 0 of the script), samples 2 .. Len are the appended  *)
(* ones.                                                                   *)
(***************************************************************************)
One == FromInt(1)
Hundred == FromInt(100)

\* the run whose loop the script is in has appended at least one sample
Stepped(samples) == Len(samples) > 1

\* the sample before the last one
Before(samples) == samples[Len(samples) - 1]

\* C1 (early termination): in both simulations the collision flag is true exactly
\* when the last appended sample has position >= distance_to_obstacle, and no
\* appended sample before the last one has: nothing is appended after the sample
\* that reaches the obstacle.  It is stated of every state of a run (each prefix of
\* the final lists is the lists of an earlier state) and of the returned lists.
StopsAtHit(positions, hit) ==
    /\ ~Stepped(positions) => ~hit
    /\ Stepped(positions) => (hit <=> Hit(Last(positions)))
    /\ Len(positions) > 2 => ~Hit(Before(positions))

NoEarlierHit(positions) == \A i \in 2..(Len(positions) - 1) : ~Hit(positions[i])

EarlyTermination ==
    /\ StopsAtHit(position, collision)
    /\ StopsAtHit(position_noacpe, collision_noacpe)
    /\ pc = "done" => NoEarlierHit(position) /\ NoEarlierHit(position_noacpe)

\* a run that collided after several samples, none of the earlier ones at the obstacle
EarlyTerminationWitness ==
    /\ pc = "done"
    /\ collision /\ Len(position) > 10
    /\ collision_noacpe /\ Len(position_noacpe) > 10
    /\ Hit(Last(position)) /\ ~Hit(Before(position))

\* C2 (immediate obstacle): with distance_to_obstacle = 0 each scenario reports a
\* collision, and the collision time and speed extracted for it are those of the
\* first appended sample (time dt), not those of the initial sample.
ImmediateObstacle ==
    (pc = "done" /\ distance_to_obstacle = FZero) =>
        /\ collision /\ collision_noacpe
        /\ collision_time = dt /\ collision_time = time[2]
        /\ collision_speed_kph = FMul(velocity[2], KphFactor)
        /\ collision_time_noacpe = dt /\ collision_time_noacpe = time_noacpe[2]
        /\ collision_speed_noacpe_kph = FMul(velocity_noacpe[2], KphFactor)

\* C5 (velocity floor): every velocity sample of both runs is >= 0.
VelocityFloor ==
    /\ FGe(Last(velocity), FZero)
    /\ FGe(Last(velocity_noacpe), FZero)
    /\ pc = "done" =>
        /\ \A i \in 1..Len(velocity) : FGe(velocity[i], FZero)
        /\ \A i \in 1..Len(velocity_noacpe) : FGe(velocity_noacpe[i], FZero)

\* the step on which braking would have taken the velocity below zero
VelocityFloorWitness ==
    /\ pc = "simulate_with_acpe"
    /\ Stepped(velocity)
    /\ Last(velocity) = FZero
    /\ FGt(Before(velocity), FZero)
    /\ FLt(FAdd(Before(velocity), FMul(brake_decel, dt)), FZero)

\* C7 (bounded termination): each simulation makes at most max_time / dt = 1000
\* iterations, so a trajectory has at most 1001 samples; a run that reports no
\* collision made exactly that many and its last sample time is max_time.
MaxSamples == max_time * 100 + 1

BoundedTermination ==
    /\ Len(time) <= MaxSamples
    /\ Len(time_noacpe) <= MaxSamples
    /\ (pc = "done" /\ ~collision) => (Len(time) = MaxSamples /\ Last(time) = MaxTime)
    /\ (pc = "done" /\ ~collision_noacpe) =>
           (Len(time_noacpe) = MaxSamples /\ Last(time_noacpe) = MaxTime)

\* C8 (braking before motion): with a reaction delay of 0 ms every sample of the
\* ACPE run has velocity 0 and position 0, so with distance_to_obstacle > 0 the
\* run goes to the time budget and reports no collision.
BrakingBeforeMotion ==
    delay_ms = 0 =>
        /\ Last(velocity) = FZero /\ Last(position) = FZero
        /\ (pc = "done" /\ FGt(distance_to_obstacle, FZero)) =>
               /\ ~collision
               /\ FGe(Last(time), MaxTime)
               /\ \A i \in 1..Len(velocity) : velocity[i] = FZero /\ position[i] = FZero

\* the scenario of the specification: delay 0, acceleration 5.0, deceleration -8.0,
\* distance 3.0, run to its end
BrakingBeforeMotionWitness ==
    /\ pc = "done"
    /\ delay_ms = 0
    /\ accel = FromInt(5) /\ brake_decel = FromInt(-8)
    /\ distance_to_obstacle = FromInt(3)
    /\ ~collision /\ collision_noacpe

\* C3 (no-op braking), as claimed: with brake_decel = 0, distance_to_obstacle = 1.0
\* and a positive accel, whatever the delay, both runs report a collision and the
\* collision sample of the ACPE run has the time and the velocity of the collision
\* sample of the run without ACPE.
NoBrakingCase ==
    /\ pc = "done"
    /\ brake_decel = FZero
    /\ distance_to_obstacle = One
    /\ FGt(accel, FZero)

ReductionBound ==
    (pc = "done" /\ FLt(brake_decel, FZero) /\ collision /\ collision_noacpe) =>
        /\ summary = "both"
        /\ FGe(reduction, FZero) /\ FLe(reduction, Hundred)
        /\ FGe(collision_speed_kph, FZero)
        /\ FLe(collision_speed_kph, collision_speed_noacpe_kph)
        /\ collision_speed_noacpe_kph = FZero => reduction = FZero

\* both runs collide and braking has lowered the collision speed
ReductionBoundWitness ==
    /\ pc = "done"
    /\ FLt(brake_decel, FZero)
    /\ collision /\ collision_noacpe
    /\ reduction # Unbound
    /\ FGt(reduction, FZero) /\ FLt(reduction, Hundred)

\* C6 (position monotonicity), as claimed: position[i] >= position[i-1] for every
\* appended sample, and position[i] - position[i-1] equals velocity[i] * dt.  Both
\* sides of the equality are computed as the script computes: in floats.
ExactIncrement(positions, velocities) ==
    Stepped(positions) =>
        /\ FGe(Last(positions), Before(positions))
        /\ FSub(Last(positions), Before(positions)) = FMul(Last(velocities), dt)

PositionIncrementExact ==
    /\ pc = "simulate_with_acpe" => ExactIncrement(position, velocity)
    /\ pc = "simulate_no_acpe" => ExactIncrement(position_noacpe, velocity_noacpe)

\* C6 as amended: position[i] >= position[i-1] for every appended sample, and
\* position[i] is the float sum of position[i-1] and velocity[i] * dt, with the
\* updated velocity; the difference position[i] - position[i-1] is that product
\* only up to the rounding of the sum.
RoundedIncrement(positions, velocities) ==
    Stepped(positions) =>
        /\ FGe(Last(positions), Before(positions))
        /\ Last(positions) = FAdd(Before(positions), FMul(Last(velocities), dt))

PositionIncrement ==
    /\ pc = "simulate_with_acpe" => RoundedIncrement(position, velocity)
    /\ pc = "simulate_no_acpe" => RoundedIncrement(position_noacpe, velocity_noacpe)

\* a step of a moving vehicle on which the velocity has changed
PositionIncrementWitness ==
    /\ pc = "simulate_with_acpe"
    /\ Len(position) > 2
    /\ FGt(Last(position), Before(position))
    /\ Last(velocity) # Before(velocity)
    /\ FGt(Before(velocity), FZero)

\* C9 (phase ordering of the ACPE run): on every step the velocity is the one the
\* rule gives (accel while the new time t is < delay_s; from then on brake_decel
\* if the previous velocity is > 0, and 0 otherwise); a step taken at or after
\* the delay is followed only by such steps; the velocity does not increase on a
\* step with t >= delay_s; and after a sample with t >= delay_s and velocity 0
\* the next sample has velocity 0 and the same position.
PhaseStep ==
    (pc = "simulate_with_acpe" /\ Len(time') = Len(time) + 1) =>
        LET t == Last(time')
            a == IF FLt(t, delay_s) THEN accel
                 ELSE IF FGt(Last(velocity), FZero) THEN brake_decel
                 ELSE FZero
        IN  /\ Last(velocity') = FMax0(FAdd(Last(velocity), FMul(a, dt)))
            /\ FGe(Last(time), delay_s) => FGe(t, delay_s)
            /\ FGe(t, delay_s) => FLe(Last(velocity'), Last(velocity))
            /\ (FGe(Last(time), delay_s) /\ Last(velocity) = FZero) =>
                   (Last(velocity') = FZero /\ Last(position') = Last(position))

PhaseOrdering == [][PhaseStep]_vars

\* the vehicle accelerated, was braked to 0 and has stayed there to the end
PhaseOrderingWitness ==
    /\ pc = "done"
    /\ ~collision
    /\ FGt(Last(position), FZero)
    /\ Last(velocity) = FZero
    /\ Before(velocity) = FZero
    /\ Before(position) = Last(position)

\* C10 (ACPE never makes things worse): at every common sample index the velocity
\* and the position of the ACPE run are <= those of the run without ACPE; if the
\* ACPE run reports a collision so does the other, at a sample time no later;
\* and the summary never takes the branch 'collision with ACPE only'.
NotAhead(i) ==
    /\ FLe(velocity[i], velocity_noacpe[i])
    /\ FLe(position[i], position_noacpe[i])

CommonSamples ==
    IF Len(time) <= Len(time_noacpe) THEN Len(time) ELSE Len(time_noacpe)

NeverWorse ==
    /\ (pc = "simulate_no_acpe" /\ Len(time_noacpe) <= Len(time)) =>
           NotAhead(Len(time_noacpe))
    /\ pc = "done" =>
           /\ \A i \in 1..CommonSamples : NotAhead(i)
           /\ collision =>
                  (collision_noacpe /\ FLe(Last(time_noacpe), Last(time)))
           /\ summary # "no_collision_without_acpe"

\* both runs collide, the ACPE run later and slower
NeverWorseWitness ==
    /\ pc = "done"
    /\ collision /\ collision_noacpe
    /\ FLt(Last(time_noacpe), Last(time))
    /\ FLt(Last(velocity), Last(velocity_noacpe))

====
